---- MODULE Spec2Model ----
(***************************************************************************)
(* The Ashen Veil (src/bot.py): the per-chat narrative session machine,    *)
(* its scene scripts, the send-then-edit animation helper and the JSON     *)
(* session store.  Every handler registered in main() is one action; the   *)
(* application processes updates one at a time, so a handler runs to       *)
(* completion (or to the exception that ends it) within one step.          *)
(***************************************************************************)
EXTENDS Integers, Sequences, FiniteSets, TLC

(***************************************************************************)
(* Bounds of the model.                                                    *)
(***************************************************************************)
\* longest evidence list a session may accumulate
MaxEvidence == 2
\* button presses, over a whole run, that are not offered by the latest scene
MaxStale == 1
\* updates handled in a run of the two-chat specification
MaxOps == 4
\* handler runs, over a whole run, in which a call is refused
MaxFaulty == 1
\* highest index of a transport call, within one handler, that may fail
MaxCalls == 3
\* longest frame list given to animate_frames in the animation specification
MaxFrames == 4
\* words of an utterance handed to npc_reply
MaxWords == 2
\* updates waiting in the update queue
MaxQueue == 2

(***************************************************************************)
(* Program constants.                                                      *)
(***************************************************************************)
ACT_1 == 0
ACT_2 == 1
ACT_3 == 2
ACT_4 == 3
ACT_5 == 4
THE_END == 5

None == "None"

\* chats known to the transport: a private chat and a group (negative id)
HostChat == 7
GuestChat == -12
Chats == {HostChat, GuestChat}
Users == {7}

(***************************************************************************)
(* str(int) and int(str) on chat ids: the JSON store keys sessions by the  *)
(* decimal text of the chat id.                                            *)
(***************************************************************************)
DigitChar == <<"0", "1", "2", "3", "4", "5", "6", "7", "8", "9">>

DigitVal(ch) == (CHOOSE i \in 1..10 : DigitChar[i] = ch) - 1

IsDigit(ch) == \E i \in 1..10 : DigitChar[i] = ch

RECURSIVE NatToStr(_)
NatToStr(n) ==
    IF n < 10 THEN <<DigitChar[n + 1]>>
    ELSE Append(NatToStr(n \div 10), DigitChar[(n % 10) + 1])

IntToStr(n) == IF n < 0 THEN <<"-">> \o NatToStr(0 - n) ELSE NatToStr(n)

RECURSIVE StrToNat(_)
StrToNat(s) ==
    IF Len(s) = 1 THEN DigitVal(s[1])
    ELSE 10 * StrToNat(SubSeq(s, 1, Len(s) - 1)) + DigitVal(s[Len(s)])

\* int(k) accepts an optional sign followed by digits, and raises otherwise
IntParses(s) ==
    LET body == IF Len(s) > 0 /\ s[1] = "-" THEN Tail(s) ELSE s
    IN  Len(body) > 0 /\ \A i \in 1..Len(body) : IsDigit(body[i])

\* variant: the sign of the key is dropped
StrToInt_unsigned(s) == IF s[1] = "-" THEN StrToNat(Tail(s)) ELSE StrToNat(s)

StrToInt(s) == IF s[1] = "-" THEN 0 - StrToNat(Tail(s)) ELSE StrToNat(s)

(***************************************************************************)
(* Session and the session table.                                          *)
(***************************************************************************)
EmptyFlags == [k \in {} |-> TRUE]

\* Session(chat_id=..., owner_id=...) with the dataclass defaults
Session(chat, owner) ==
    [chat_id |-> chat, owner_id |-> owner, act |-> ACT_1, step |-> 0,
     inventory |-> <<>>, evidence |-> <<>>, flags |-> EmptyFlags,
     pinned_msg_id |-> None]

\* Session.to_dict: asdict copies every field
to_dict(sess) ==
    [chat_id |-> sess.chat_id, owner_id |-> sess.owner_id, act |-> sess.act,
     step |-> sess.step, inventory |-> sess.inventory,
     evidence |-> sess.evidence, flags |-> sess.flags,
     pinned_msg_id |-> sess.pinned_msg_id]

\* d.get(k, default)
Get(d, k, default) == IF k \in DOMAIN d THEN d[k] ELSE default

\* d["chat_id"] and d["owner_id"] raise KeyError on a dict without the key
FromDictRaises(d) == ~({"chat_id", "owner_id"} \subseteq DOMAIN d)

\* Session.from_dict on a dict that carries the two required keys
from_dict(d) ==
    [chat_id |-> d.chat_id, owner_id |-> d.owner_id,
     act |-> Get(d, "act", ACT_1), step |-> Get(d, "step", 0),
     inventory |-> Get(d, "inventory", <<>>),
     evidence |-> Get(d, "evidence", <<>>),
     flags |-> Get(d, "flags", EmptyFlags),
     pinned_msg_id |-> Get(d, "pinned_msg_id", None)]

\* sess.flags.get(k) as a truth value (the keys read this way only hold True)
FlagSet(flags, k) == k \in DOMAIN flags /\ flags[k] = TRUE

\* SESSIONS is a dict: a function whose domain is the chats that have a session
EmptyTable == [c \in {} |-> Session(c, 0)]

HasSession(tab, c) == c \in DOMAIN tab

\* SESSIONS[c] = sess
Put(tab, c, sess) == [x \in (DOMAIN tab) \cup {c} |-> IF x = c THEN sess ELSE tab[x]]

\* SESSIONS.pop(c, None)
Pop(tab, c) == [x \in (DOMAIN tab) \ {c} |-> tab[x]]

(***************************************************************************)
(* The session store: absent, or a JSON object from text keys to dicts.    *)
(***************************************************************************)
NoStore == [exists |-> FALSE, doc |-> [k \in {} |-> None]]

\* the object save_sessions dumps: {k: v.to_dict() for k, v in SESSIONS.items()}
DumpTable(tab) ==
    LET keys == {IntToStr(c) : c \in DOMAIN tab}
    IN  [k \in keys |-> to_dict(tab[CHOOSE c \in DOMAIN tab : IntToStr(c) = k])]

(***************************************************************************)
(* Transport faults of one handler run: which calls the transport refuses, *)
(* by the index of the call among the calls of its kind in that handler;   *)
(* read: opening or parsing the store raises (unreadable file, malformed   *)
(* document).                                                              *)
(***************************************************************************)
NoFault ==
    [send |-> {}, edit |-> {}, media |-> {}, save |-> {},
     ack |-> FALSE, qedit |-> FALSE, read |-> FALSE]

\* one refused call
OneFault ==
    {[NoFault EXCEPT !.send = {n}] : n \in 1..MaxCalls} \cup
    {[NoFault EXCEPT !.edit = {n}] : n \in 1..MaxCalls} \cup
    {[NoFault EXCEPT !.media = {n}] : n \in 1..MaxCalls} \cup
    {[NoFault EXCEPT !.save = {n}] : n \in 1..MaxCalls} \cup
    {[NoFault EXCEPT !.ack = TRUE], [NoFault EXCEPT !.qedit = TRUE],
     [NoFault EXCEPT !.read = TRUE]}

Faults == {NoFault} \cup OneFault

(***************************************************************************)
(* The running state of one handler: the session table and store it works  *)
(* on, the log of transport calls it has made, the buttons its latest      *)
(* prompt offers, the message handle its latest send returned, counters of *)
(* the calls made so far, whether its latest save_sessions wrote the       *)
(* store, whether save_sessions or load_sessions caught an exception and   *)
(* whether an exception is propagating.                                    *)
(***************************************************************************)
Begin(tab, st, off) ==
    [tab |-> tab, store |-> st, out |-> <<>>, off |-> off, msg |-> 0,
     mid |-> 0, ns |-> 0, ne |-> 0, nm |-> 0, nw |-> 0, wrote |-> FALSE,
     ioerr |-> FALSE, raised |-> FALSE]

Ev(k, t, m, ok) == [k |-> k, t |-> t, m |-> m, ok |-> ok]

Log(h, e) == [h EXCEPT !.out = Append(@, e)]

\* asyncio.sleep
Sleep(h) == IF h.raised THEN h ELSE Log(h, Ev("sleep", "", 0, TRUE))

\* save_sessions: the whole table is rewritten; a failed write is swallowed
save_sessions(h, f) ==
    IF h.raised THEN h
    ELSE LET n == h.nw + 1
         IN  IF n \in f.save
             THEN [h EXCEPT !.nw = n, !.wrote = FALSE, !.ioerr = TRUE]
             ELSE [h EXCEPT !.nw = n, !.wrote = TRUE,
                            !.store = [exists |-> TRUE, doc |-> DumpTable(h.tab)]]

\* context.bot.send_message: a new message, or the transport's exception
SendMessage(h, f, k, t) ==
    IF h.raised THEN h
    ELSE LET n == h.ns + 1
         IN  IF n \in f.send
             THEN [Log(h, Ev(k, t, 0, FALSE)) EXCEPT !.ns = n, !.raised = TRUE]
             ELSE [Log(h, Ev(k, t, h.mid + 1, TRUE)) EXCEPT
                       !.ns = n, !.mid = h.mid + 1, !.msg = h.mid + 1]

\* whether the next edit_message_text call is accepted
EditAccepted(h, f) == (h.ne + 1) \notin f.edit

\* context.bot.edit_message_text on message m (the caller catches a refusal)
EditMessage(h, f, m, t) ==
    IF h.raised THEN h
    ELSE [Log(h, Ev("edit", t, m, EditAccepted(h, f))) EXCEPT !.ne = h.ne + 1]

\* send_typing: the chat action may fail silently, then the pause
send_typing(h) ==
    IF h.raised THEN h ELSE Sleep(Log(h, Ev("typing", "", 0, TRUE)))

\* send_text
send_text(h, f, t, delay) ==
    LET h1 == IF delay THEN Sleep(h) ELSE h
    IN  SendMessage(send_typing(h1), f, "text", t)

\* whether the next media call (photo, audio, video) is accepted
MediaAccepted(h, f) == (h.nm + 1) \notin f.media

\* one media call; the caller catches a refusal
MediaCall(h, f, k, t) ==
    IF h.raised THEN h
    ELSE [Log(h, Ev(k, t, IF MediaAccepted(h, f) THEN h.mid + 1 ELSE 0,
                    MediaAccepted(h, f))) EXCEPT
              !.nm = h.nm + 1,
              !.mid = IF MediaAccepted(h, f) THEN h.mid + 1 ELSE h.mid]

\* send_media_photo: the photo, or its caption as a plain message
send_media_photo(h, f, t) ==
    LET h1 == send_typing(h)
        h2 == MediaCall(h1, f, "photo", t)
    IN  IF h.raised \/ MediaAccepted(h1, f) THEN h2
        ELSE SendMessage(h2, f, "text", t)

\* variant: a refused edit is swallowed and the frame is not sent again
RECURSIVE AnimateRest_skip(_, _, _)
AnimateRest_skip(h, f, rest) ==
    IF h.raised \/ rest = <<>> THEN h
    ELSE LET h1 == Sleep(h)
             h2 == EditMessage(h1, f, h1.msg, Head(rest))
         IN  AnimateRest_skip(h2, f, Tail(rest))

\* variant: the fallback message is sent but msg is not reassigned to it
RECURSIVE AnimateRest_keep(_, _, _)
AnimateRest_keep(h, f, rest) ==
    IF h.raised \/ rest = <<>> THEN h
    ELSE LET h1 == Sleep(h)
             h2 == EditMessage(h1, f, h1.msg, Head(rest))
             h3 == IF EditAccepted(h1, f) THEN h2
                   ELSE [SendMessage(h2, f, "text", Head(rest)) EXCEPT
                             !.msg = h1.msg]
         IN  AnimateRest_keep(h3, f, Tail(rest))

\* the body of the loop of animate_frames for the frames after the first
RECURSIVE AnimateRest(_, _, _)
AnimateRest(h, f, rest) ==
    IF h.raised \/ rest = <<>> THEN h
    ELSE LET h1 == Sleep(h)
             h2 == EditMessage(h1, f, h1.msg, Head(rest))
             h3 == IF EditAccepted(h1, f) THEN h2
                   ELSE SendMessage(h2, f, "text", Head(rest))
         IN  AnimateRest(h3, f, Tail(rest))

\* animate_frames; the handle it returns is h.msg of the result
animate_frames(h, f, frames) ==
    IF frames = <<>> THEN send_text(h, f, "...", FALSE)
    ELSE AnimateRest(SendMessage(h, f, "text", frames[1]), f, Tail(frames))

\* show_buttons: the prompt with its inline keyboard
show_buttons(h, f, t, choices, delay) ==
    LET h1 == send_typing(IF delay THEN Sleep(h) ELSE h)
        h2 == SendMessage(h1, f, "buttons", t)
    IN  IF h2.raised THEN h2 ELSE [h2 EXCEPT !.off = choices]

(***************************************************************************)
(* Session mutations made by the button handler on SESSIONS[c].            *)
(***************************************************************************)
\* sess.flags[k] = v
SetFlag(h, c, k, v) ==
    IF h.raised THEN h
    ELSE [h EXCEPT !.tab[c].flags =
              [x \in (DOMAIN @) \cup {k} |-> IF x = k THEN v ELSE @[x]]]

\* sess.evidence.append(e)
AddEvidence(h, c, e) ==
    IF h.raised THEN h ELSE [h EXCEPT !.tab[c].evidence = Append(@, e)]

\* sess.act = a
SetAct(h, c, a) == IF h.raised THEN h ELSE [h EXCEPT !.tab[c].act = a]

(***************************************************************************)
(* Acts.                                                                   *)
(***************************************************************************)
act1_opening(h, f) ==
    LET h1 == animate_frames(h, f, <<"welcome", "rain_salt", "gone_14_years">>)
        h2 == send_media_photo(h1, f, "death_cert")
        h3 == show_buttons(h2, f, "where_first",
                           {"a1_pkg", "a1_hall", "a1_docks"}, FALSE)
        h4 == Sleep(h3)
    IN  send_media_photo(h4, f, "newspaper")

act2_fracture(h, f) ==
    LET h1 == send_text(h, f, "crestfall_sleeps", FALSE)
    IN  show_buttons(h1, f, "where_begin",
                     {"a2_home", "a2_arch", "a2_forest"}, FALSE)

act3_investigate(h, f) ==
    LET h1 == animate_frames(h, f, <<"storm", "threaded">>)
    IN  show_buttons(h1, f, "interrogations",
                     {"a3_merrick", "a3_archivist", "a3_call"}, FALSE)

\* variant: the collapse ends on its last line, without the route prompt
act4_collapse_no_prompt(h, f) ==
    LET h1 == animate_frames(h, f, <<"already_dead", "still_save", "blood_hands">>)
        h2 == send_text(h1, f, "who_lit_match", FALSE)
    IN  send_text(h2, f, "it_was_you", FALSE)

act4_collapse(h, f) ==
    LET h1 == animate_frames(h, f, <<"already_dead", "still_save", "blood_hands">>)
        h2 == send_text(h1, f, "who_lit_match", FALSE)
        h3 == send_text(h2, f, "it_was_you", FALSE)
    IN  show_buttons(h3, f, "pre_finale",
                     {"a4_break", "a4_burn", "a4_hunt"}, FALSE)

act5_finale(h, f) ==
    LET h1 == animate_frames(h, f, <<"match_lit", "room_inhales", "silence_heat">>)
    IN  show_buttons(h1, f, "final_choice",
                     {"end_save", "end_veil", "end_burn"}, FALSE)

(***************************************************************************)
(* Extended scenes.                                                        *)
(***************************************************************************)
\* the toe-tag loop of morgue_sequence: edit in place, else a new message
RECURSIVE TagLines(_, _, _)
TagLines(h, f, rest) ==
    IF h.raised \/ rest = <<>> THEN h
    ELSE LET h1 == Sleep(h)
             h2 == EditMessage(h1, f, h1.msg, Head(rest))
             h3 == IF EditAccepted(h1, f) THEN h2
                   ELSE SendMessage(h2, f, "text", Head(rest))
         IN  TagLines(h3, f, Tail(rest))

morgue_sequence(h, f) ==
    LET h1 == send_text(h, f, "morgue_door", TRUE)
        h2 == send_media_photo(h1, f, "morgue_interior")
        h3 == animate_frames(h2, f, <<"corridor", "toe_tag", "raincoat">>)
        h4 == MediaCall(h3, f, "audio", "heartbeat")
        h5 == IF h3.raised \/ MediaAccepted(h3, f) THEN h4
              ELSE send_text(h4, f, "pulse_quickens", FALSE)
        h6 == SendMessage(h5, f, "text", "tag_blank")
        h7 == TagLines(h6, f, <<"tag_e_gray", "tag_lila_gray">>)
        h8 == Sleep(h7)
    IN  show_buttons(h8, f, "tag_says_lila",
                     {"morg_revive", "morg_call", "morg_photo"}, FALSE)

flood_cover_sequence(h, f) ==
    LET h1 == send_text(h, f, "rescue_maps", TRUE)
        h2 == send_media_photo(h1, f, "flood_map")
        h3 == animate_frames(h2, f, <<"route_a", "route_b", "addendum_11">>)
        h4 == send_text(h3, f, "burned_corner", FALSE)
    IN  show_buttons(h4, f, "maps_choice",
                     {"flood_leak", "flood_archive", "flood_burn"}, FALSE)

archivist_betrayal_sequence(h, f) ==
    LET h1 == send_media_photo(h, f, "archivist_portrait")
        h2 == send_text(h1, f, "arranging_files", TRUE)
        h3 == SendMessage(h2, f, "text", "shouldnt_dig")
        m  == h3.msg
        h4 == Sleep(h3)
        h5 == EditMessage(h4, f, m, "should_stop")
        h6 == IF EditAccepted(h4, f) THEN h5
              ELSE [SendMessage(h5, f, "text", "should_stop") EXCEPT !.msg = m]
        h7 == Sleep(h6)
        h8 == SendMessage(h7, f, "text", "restoring_snapshot")
        h9 == Sleep(h8)
        h10 == SendMessage(h9, f, "text", "archive_restored")
        h11 == send_text(h10, f, "promised_safe", TRUE)
    IN  show_buttons(h11, f, "archivist_reveals",
                     {"arch_confront", "arch_record", "arch_leave"}, FALSE)

(***************************************************************************)
(* Button handler: one operator per branch of on_button, named after the   *)
(* callback token the branch compares query.data with.                     *)
(***************************************************************************)
a1_pkg(h, f, c) ==
    LET h1 == SetFlag(h, c, "heard_cassette", TRUE)
        h2 == send_text(h1, f, "cassette_crackles", TRUE)
        h3 == SetAct(h2, c, ACT_2)
        h4 == save_sessions(h3, f)
    IN  act2_fracture(h4, f)

a1_hall(h, f, c) ==
    LET h1 == SetFlag(h, c, "met_archivist", TRUE)
        h2 == send_text(h1, f, "archivist_clouded", FALSE)
        h3 == SetAct(h2, c, ACT_2)
        h4 == save_sessions(h3, f)
    IN  act2_fracture(h4, f)

a1_docks(h, f, c) ==
    LET h1 == SetFlag(h, c, "met_merrick", TRUE)
        h2 == send_text(h1, f, "merrick_gasoline", FALSE)
        h3 == SetAct(h2, c, ACT_2)
        h4 == save_sessions(h3, f)
    IN  act2_fracture(h4, f)

a2_home(h, f, c) ==
    LET h1 == AddEvidence(h, c, "locked_room")
        h2 == send_text(h1, f, "bedroom_locked", FALSE)
        h3 == SetAct(h2, c, ACT_3)
        h4 == save_sessions(h3, f)
    IN  act3_investigate(h4, f)

a2_arch(h, f, c) ==
    LET h1 == AddEvidence(h, c, "file_evelyn")
        h2 == send_text(h1, f, "file_03", FALSE)
        h3 == SetAct(h2, c, ACT_3)
        h4 == save_sessions(h3, f)
    IN  act3_investigate(h4, f)

a2_forest(h, f, c) ==
    LET h1 == AddEvidence(h, c, "forest_disturbance")
        h2 == send_text(h1, f, "ground_soft", FALSE)
        h3 == SetAct(h2, c, ACT_3)
        h4 == save_sessions(h3, f)
    IN  act3_investigate(h4, f)

a3_merrick(h, f, c) ==
    LET h1 == SetFlag(h, c, "merrick_photo", TRUE)
        h2 == send_media_photo(h1, f, "bar")
        h3 == send_text(h2, f, "scorched_photo", FALSE)
        h4 == save_sessions(h3, f)
    IN  show_buttons(h4, f, "do_you", {"goto_morgue", "a3_archivist"}, FALSE)

a3_archivist(h, f, c) ==
    LET h1 == SetFlag(h, c, "archive_tomorrow", TRUE)
        h2 == send_text(h1, f, "pages_rearrange", FALSE)
        h3 == save_sessions(h2, f)
    IN  show_buttons(h3, f, "do_you", {"arch_press", "goto_morgue", "a3_call"}, FALSE)

a3_call(h, f, c) ==
    LET h1 == SetFlag(h, c, "mystery_call", TRUE)
        h2 == send_text(h1, f, "line_dies", FALSE)
        h3 == save_sessions(h2, f)
    IN  show_buttons(h3, f, "immediate_options", {"goto_morgue", "goto_flood"}, FALSE)

\* variant: entering the morgue is recorded in the session
goto_morgue_marks(h, f, c) ==
    morgue_sequence(SetFlag(h, c, "seen_morgue", TRUE), f)

goto_morgue(h, f, c) ==
    morgue_sequence(h, f)

\* variant: the evidence is recorded without the flag
morg_revive_unmarked(h, f, c) ==
    LET h1 == animate_frames(h, f, <<"cold_water", "fingers_twitch", "remembers_you">>)
        h3 == AddEvidence(h1, c, "lila_alive")
        h4 == save_sessions(h3, f)
        h5 == send_text(h4, f, "you_came_back", TRUE)
    IN  show_buttons(h5, f, "choices", {"morg_hide", "morg_confront_arch"}, FALSE)

morg_revive(h, f, c) ==
    LET h1 == animate_frames(h, f, <<"cold_water", "fingers_twitch", "remembers_you">>)
        h2 == SetFlag(h1, c, "revived_lila", TRUE)
        h3 == AddEvidence(h2, c, "lila_alive")
        h4 == save_sessions(h3, f)
        h5 == send_text(h4, f, "you_came_back", TRUE)
    IN  show_buttons(h5, f, "choices", {"morg_hide", "morg_confront_arch"}, FALSE)

morg_call(h, f, c) ==
    LET h1 == AddEvidence(h, c, "guard_radio")
        h2 == save_sessions(h1, f)
        h3 == send_text(h2, f, "radio_crackles", FALSE)
    IN  show_buttons(h3, f, "do_you", {"goto_flood", "a3_archivist"}, FALSE)

morg_photo(h, f, c) ==
    LET h1 == AddEvidence(h, c, "lila_photo")
        h2 == save_sessions(h1, f)
        h3 == send_text(h2, f, "photograph_tag", FALSE)
    IN  show_buttons(h3, f, "what_next", {"goto_flood", "morg_hide"}, FALSE)

morg_hide(h, f, c) ==
    LET h1 == animate_frames(h, f, <<"wrap_coat", "weight_futures">>)
        h2 == SetFlag(h1, c, "lila_hidden", TRUE)
        h3 == SetAct(h2, c, ACT_4)
        h4 == save_sessions(h3, f)
        h5 == send_text(h4, f, "hid_lila", FALSE)
    IN  act4_collapse(h5, f)

morg_confront_arch(h, f, c) ==
    LET h1 == SetFlag(h, c, "confront_with_lila", TRUE)
        h2 == save_sessions(h1, f)
        h3 == send_text(h2, f, "march_archives", FALSE)
    IN  archivist_betrayal_sequence(h3, f)

goto_flood(h, f, c) ==
    flood_cover_sequence(h, f)

flood_leak(h, f, c) ==
    LET h1 == SetFlag(h, c, "leaked_maps", TRUE)
        h2 == save_sessions(h1, f)
        h3 == animate_frames(h2, f, <<"photocopy_maps", "accounts_disappear">>)
        h4 == send_text(h3, f, "news_leak", FALSE)
        h5 == SetAct(h4, c, ACT_4)
        h6 == save_sessions(h5, f)
    IN  act4_collapse(h6, f)

flood_archive(h, f, c) ==
    LET h1 == SetFlag(h, c, "kept_maps", TRUE)
        h2 == SetAct(h1, c, ACT_4)
        h3 == save_sessions(h2, f)
        h4 == send_text(h3, f, "private_coal", FALSE)
    IN  act4_collapse(h4, f)

flood_burn(h, f, c) ==
    LET h1 == SetFlag(h, c, "burned_maps", TRUE)
        h2 == save_sessions(h1, f)
        h3 == animate_frames(h2, f, <<"burn_maps", "smoke_promises">>)
        h4 == send_text(h3, f, "hands_ash", FALSE)
        h5 == SetAct(h4, c, ACT_4)
        h6 == save_sessions(h5, f)
    IN  act4_collapse(h6, f)

arch_press(h, f, c) ==
    archivist_betrayal_sequence(h, f)

arch_confront(h, f, c) ==
    LET h1 == send_text(h, f, "press_names", FALSE)
        h2 == animate_frames(h1, f, <<"made_deals", "buried_truths", "buried_family">>)
        h3 == SetFlag(h2, c, "arch_betrayal", TRUE)
        h4 == save_sessions(h3, f)
    IN  show_buttons(h4, f, "next", {"arch_expose", "arch_record", "arch_leave"}, FALSE)

arch_record(h, f, c) ==
    LET h1 == SetFlag(h, c, "arch_recorded", TRUE)
        h2 == SetAct(h1, c, ACT_4)
        h3 == save_sessions(h2, f)
        h4 == send_text(h3, f, "secretly_record", FALSE)
        h5 == send_text(h4, f, "proof_heal", TRUE)
    IN  act4_collapse(h5, f)

arch_leave(h, f, c) ==
    LET h1 == SetFlag(h, c, "arch_left", TRUE)
        h2 == SetAct(h1, c, ACT_4)
        h3 == save_sessions(h2, f)
        h4 == send_text(h3, f, "turn_away", FALSE)
    IN  act4_collapse(h4, f)

arch_expose(h, f, c) ==
    LET h1 == SetFlag(h, c, "arch_exposed", TRUE)
        h2 == SetAct(h1, c, ACT_4)
        h3 == save_sessions(h2, f)
        h4 == animate_frames(h3, f, <<"publish_confession", "century_cracking">>)
        h5 == send_text(h4, f, "profiles_shift", FALSE)
    IN  act4_collapse(h5, f)

\* variant: the anchor narration looks at revived_lila only
a4_break_revived_only(h, f, c) ==
    LET h1 == SetFlag(h, c, "route", "break")
        h2 == SetAct(h1, c, ACT_5)
        h3 == save_sessions(h2, f)
        h4 == animate_frames(h3, f, <<"fold_timeline", "names_snap">>)
        h5 == IF FlagSet(h.tab[c].flags, "revived_lila")
              THEN send_text(h4, f, "lila_anchor", FALSE)
              ELSE h4
    IN  act5_finale(h5, f)

a4_break(h, f, c) ==
    LET h1 == SetFlag(h, c, "route", "break")
        h2 == SetAct(h1, c, ACT_5)
        h3 == save_sessions(h2, f)
        h4 == animate_frames(h3, f, <<"fold_timeline", "names_snap">>)
        h5 == IF FlagSet(h.tab[c].flags, "lila_hidden")
                 \/ FlagSet(h.tab[c].flags, "revived_lila")
              THEN send_text(h4, f, "lila_anchor", FALSE)
              ELSE h4
    IN  act5_finale(h5, f)

a4_burn(h, f, c) ==
    LET h1 == SetFlag(h, c, "route", "burn")
        h2 == SetAct(h1, c, ACT_5)
        h3 == save_sessions(h2, f)
        h4 == animate_frames(h3, f, <<"step_into_heat", "ash_falls">>)
    IN  act5_finale(h4, f)

\* variant: the route goes straight to the terminal act
a4_hunt_ends(h, f, c) ==
    LET h1 == SetFlag(h, c, "route", "hunt")
        h2 == SetAct(h1, c, THE_END)
        h3 == save_sessions(h2, f)
        h4 == animate_frames(h3, f, <<"hunt_other_self", "name_slips">>)
    IN  act5_finale(h4, f)

a4_hunt(h, f, c) ==
    LET h1 == SetFlag(h, c, "route", "hunt")
        h2 == SetAct(h1, c, ACT_5)
        h3 == save_sessions(h2, f)
        h4 == animate_frames(h3, f, <<"hunt_other_self", "name_slips">>)
    IN  act5_finale(h4, f)

\* an ending returns after its GAME OVER line without a prompt: the scene
\* now on screen offers no button
EndScene(h) == IF h.raised THEN h ELSE [h EXCEPT !.off = {}]

\* the bonus clip of end_save: a refused video is dropped silently
send_video(h, f, t) == MediaCall(h, f, "video", t)

\* variant: only revived_lila selects the mercy branch
end_save_revived_only(h, f, c) ==
    LET mercy == FlagSet(h.tab[c].flags, "revived_lila")
        m1 == animate_frames(h, f, <<"hold_lila", "chooses_mercy">>)
        m2 == send_text(m1, f, "saved_her", FALSE)
        m3 == send_video(m2, f, "final_clip")
        s1 == animate_frames(h, f, <<"only_smoke", "name_on_flame">>)
        s2 == send_text(s1, f, "you_tried", FALSE)
        h1 == IF mercy THEN m3 ELSE s2
        h2 == SetAct(h1, c, THE_END)
        h3 == save_sessions(h2, f)
    IN  EndScene(send_text(h3, f, "game_over_saved", FALSE))

end_save(h, f, c) ==
    LET mercy == FlagSet(h.tab[c].flags, "revived_lila")
                 \/ FlagSet(h.tab[c].flags, "lila_hidden")
        m1 == animate_frames(h, f, <<"hold_lila", "chooses_mercy">>)
        m2 == send_text(m1, f, "saved_her", FALSE)
        m3 == send_video(m2, f, "final_clip")
        s1 == animate_frames(h, f, <<"only_smoke", "name_on_flame">>)
        s2 == send_text(s1, f, "you_tried", FALSE)
        h1 == IF mercy THEN m3 ELSE s2
        h2 == SetAct(h1, c, THE_END)
        h3 == save_sessions(h2, f)
    IN  EndScene(send_text(h3, f, "game_over_saved", FALSE))

\* variant: the ending leaves a mark in the evidence each time it fires
end_veil_marks(h, f, c) ==
    LET h1 == animate_frames(h, f, <<"veil_rips", "everything_remembers", "terrible_quiet">>)
        h2 == send_text(h1, f, "town_wakes", FALSE)
        h3 == SetAct(AddEvidence(h2, c, "veil_torn"), c, THE_END)
        h4 == save_sessions(h3, f)
    IN  EndScene(send_text(h4, f, "game_over_truth", FALSE))

end_veil(h, f, c) ==
    LET h1 == animate_frames(h, f, <<"veil_rips", "everything_remembers", "terrible_quiet">>)
        h2 == send_text(h1, f, "town_wakes", FALSE)
        h3 == SetAct(h2, c, THE_END)
        h4 == save_sessions(h3, f)
    IN  EndScene(send_text(h4, f, "game_over_truth", FALSE))

end_burn(h, f, c) ==
    LET h1 == animate_frames(h, f, <<"let_it_burn", "secrets_cook">>)
        h2 == send_text(h1, f, "keep_your_name", FALSE)
        h3 == SetAct(h2, c, THE_END)
        h4 == save_sessions(h3, f)
    IN  EndScene(send_text(h4, f, "game_over_survivor", FALSE))

Tokens ==
    {"a1_pkg", "a1_hall", "a1_docks", "a2_home", "a2_arch", "a2_forest",
     "a3_merrick", "a3_archivist", "a3_call", "goto_morgue", "morg_revive",
     "morg_call", "morg_photo", "morg_hide", "morg_confront_arch",
     "goto_flood", "flood_leak", "flood_archive", "flood_burn", "arch_press",
     "arch_confront", "arch_record", "arch_leave", "arch_expose", "a4_break",
     "a4_burn", "a4_hunt", "end_save", "end_veil", "end_burn"}

\* the tokens of the three endings
EndTokens == {"end_save", "end_veil", "end_burn"}

\* callback data that no branch of on_button compares with
UnknownToken == "zz_unknown"

\* query.answer(): the acknowledgement of the click; a refusal propagates
Answer(h, f) ==
    IF f.ack THEN [Log(h, Ev("answer", "", 0, FALSE)) EXCEPT !.raised = TRUE]
    ELSE Log(h, Ev("answer", "", 0, TRUE))

\* variant: a refused edit of the button message always propagates
QueryEdit_unguarded(h, f, t, guarded) ==
    IF h.raised THEN h
    ELSE [Log(h, Ev("notice", t, 0, ~f.qedit)) EXCEPT !.raised = f.qedit]

\* query.edit_message_text: rewrites the message that carries the button
QueryEdit(h, f, t, guarded) ==
    IF h.raised THEN h
    ELSE [Log(h, Ev("notice", t, 0, ~f.qedit)) EXCEPT
              !.raised = f.qedit /\ ~guarded]

\* the branches of on_button after the session lookup
Branch(h, f, c, data) ==
    CASE data = "a1_pkg" -> a1_pkg(h, f, c)
      [] data = "a1_hall" -> a1_hall(h, f, c)
      [] data = "a1_docks" -> a1_docks(h, f, c)
      [] data = "a2_home" -> a2_home(h, f, c)
      [] data = "a2_arch" -> a2_arch(h, f, c)
      [] data = "a2_forest" -> a2_forest(h, f, c)
      [] data = "a3_merrick" -> a3_merrick(h, f, c)
      [] data = "a3_archivist" -> a3_archivist(h, f, c)
      [] data = "a3_call" -> a3_call(h, f, c)
      [] data = "goto_morgue" -> goto_morgue(h, f, c)
      [] data = "morg_revive" -> morg_revive(h, f, c)
      [] data = "morg_call" -> morg_call(h, f, c)
      [] data = "morg_photo" -> morg_photo(h, f, c)
      [] data = "morg_hide" -> morg_hide(h, f, c)
      [] data = "morg_confront_arch" -> morg_confront_arch(h, f, c)
      [] data = "goto_flood" -> goto_flood(h, f, c)
      [] data = "flood_leak" -> flood_leak(h, f, c)
      [] data = "flood_archive" -> flood_archive(h, f, c)
      [] data = "flood_burn" -> flood_burn(h, f, c)
      [] data = "arch_press" -> arch_press(h, f, c)
      [] data = "arch_confront" -> arch_confront(h, f, c)
      [] data = "arch_record" -> arch_record(h, f, c)
      [] data = "arch_leave" -> arch_leave(h, f, c)
      [] data = "arch_expose" -> arch_expose(h, f, c)
      [] data = "a4_break" -> a4_break(h, f, c)
      [] data = "a4_burn" -> a4_burn(h, f, c)
      [] data = "a4_hunt" -> a4_hunt(h, f, c)
      [] data = "end_save" -> end_save(h, f, c)
      [] data = "end_veil" -> end_veil(h, f, c)
      [] data = "end_burn" -> end_burn(h, f, c)
      [] OTHER -> QueryEdit(h, f, "rearranges_punctuation", TRUE)

\* variant: a missing session is created on the fly (SESSIONS.setdefault)
on_button_autocreate(tab, st, off, f, c, data) ==
    LET t1 == IF HasSession(tab, c) THEN tab ELSE Put(tab, c, Session(c, 0))
        h0 == Answer(Begin(t1, st, off), f)
    IN  IF ~HasSession(tab, c)
        THEN QueryEdit(h0, f, "session_expired", FALSE)
        ELSE Branch(h0, f, c, data)

\* variant: the click is acknowledged after the branch has run
on_button_late_ack(tab, st, off, f, c, data) ==
    LET h0 == Begin(tab, st, off)
        h1 == IF ~HasSession(tab, c)
              THEN QueryEdit(h0, f, "session_expired", FALSE)
              ELSE Branch(h0, f, c, data)
    IN  IF h1.raised THEN h1 ELSE Answer(h1, f)

on_button(tab, st, off, f, c, data) ==
    LET h0 == Answer(Begin(tab, st, off), f)
    IN  IF ~HasSession(tab, c)
        THEN QueryEdit(h0, f, "session_expired", FALSE)
        ELSE Branch(h0, f, c, data)

(***************************************************************************)
(* NPC replies.  Text is a sequence of characters, so that `w in low` is   *)
(* the substring test the code makes.                                      *)
(***************************************************************************)
\* str.lower() on the letters the utterances of the model are written with
LowerChar(ch) ==
    CASE ch = "W" -> "w"
      [] ch = "H" -> "h"
      [] ch = "Y" -> "y"
      [] OTHER -> ch

Lower(s) == [i \in 1..Len(s) |-> LowerChar(s[i])]

\* str.strip(): leading and trailing blanks removed
RECURSIVE Strip(_)
Strip(s) ==
    IF s = <<>> THEN s
    ELSE IF Head(s) = " " THEN Strip(Tail(s))
    ELSE IF s[Len(s)] = " " THEN Strip(SubSeq(s, 1, Len(s) - 1))
    ELSE s

\* " ".join(words)
RECURSIVE Join(_)
Join(words) ==
    IF words = <<>> THEN <<>>
    ELSE IF Len(words) = 1 THEN words[1]
    ELSE words[1] \o <<" ">> \o Join(Tail(words))

\* w in low
Contains(low, w) ==
    \E i \in 0..(Len(low) - Len(w)) : SubSeq(low, i + 1, i + Len(w)) = w

\* any(w in low for w in ws)
AnyIn(low, ws) == \E w \in ws : Contains(low, w)

Interrogatives ==
    {<<"w", "h", "e", "r", "e">>,
     <<"w", "h", "o">>,
     <<"w", "h", "y">>,
     <<"h", "o", "w">>,
     <<"w", "h", "e", "n">>,
     <<"w", "h", "a", "t">>}

Distress ==
    {<<"s", "a", "v", "e">>,
     <<"h", "e", "l", "p">>,
     <<"p", "l", "e", "a", "s", "e">>,
     <<"c", "a", "n", "'", "t">>,
     <<"w", "o", "n", "t">>,
     <<"w", "o", "n", "'", "t">>}

MysteryPool == {"maps_of_lies", "ask_the_archivist", "name_you_remember"}

ComfortPool == {"stay_with_me", "rain_on_glass", "people_over_truths"}

AtmosphericPool == {"chapel_no_roof", "final_line", "town_forgets"}

\* variant: the distress keywords are looked for first
TemplatePool_distress_first(player_text) ==
    LET low == Lower(Strip(player_text))
    IN  IF AnyIn(low, Distress) THEN ComfortPool
        ELSE IF AnyIn(low, Interrogatives) THEN MysteryPool
        ELSE AtmosphericPool

\* the rule-based part of npc_reply: the list random.choice draws from
TemplatePool(player_text) ==
    LET low == Lower(Strip(player_text))
    IN  IF AnyIn(low, Interrogatives) THEN MysteryPool
        ELSE IF AnyIn(low, Distress) THEN ComfortPool
        ELSE AtmosphericPool

\* USE_OPENAI unset; or set, and then the import and the call succeed and the
\* response has the expected shape, or the import or the call raises, or the
\* response lacks choices[0].message.content
OpenAIModes == {"off", "ok", "raises", "malformed"}

\* the try block of npc_reply: the generated line, or the exception that ends it
Generated(mode) ==
    IF mode = "ok" THEN [line |-> "openai_line", exc |-> FALSE]
    ELSE [line |-> "", exc |-> TRUE]

\* variant: the response is taken apart after the try block
npc_reply_parse_outside(player_text, mode) ==
    IF mode = "malformed" THEN {[line |-> "", raised |-> TRUE]}
    ELSE IF mode # "off" /\ ~Generated(mode).exc
    THEN {[line |-> Generated(mode).line, raised |-> FALSE]}
    ELSE {[line |-> l, raised |-> FALSE] : l \in TemplatePool(player_text)}

\* npc_reply: the lines it may return, and whether it raises instead
npc_reply(player_text, mode) ==
    IF mode # "off" /\ ~Generated(mode).exc
    THEN {[line |-> Generated(mode).line, raised |-> FALSE]}
    ELSE {[line |-> l, raised |-> FALSE] : l \in TemplatePool(player_text)}

(***************************************************************************)
(* Commands.                                                               *)
(***************************************************************************)
NoUser == 0

\* update.message.reply_text
reply_text(h, f, t) == SendMessage(h, f, "reply", t)

\* variant: an existing session keeps its flags and evidence (merge)
cmd_start_merge(tab, st, off, f, c, user) ==
    IF user = NoUser THEN Begin(tab, st, off)
    ELSE LET fresh == Session(c, user)
             sess == IF HasSession(tab, c)
                     THEN [fresh EXCEPT !.flags = tab[c].flags,
                                        !.evidence = tab[c].evidence]
                     ELSE fresh
             h0 == Begin(Put(tab, c, sess), st, off)
             h1 == save_sessions(h0, f)
             h2 == send_text(h1, f, "welcome_user", TRUE)
         IN  act1_opening(h2, f)

cmd_start(tab, st, off, f, c, user) ==
    IF user = NoUser THEN Begin(tab, st, off)
    ELSE LET h0 == Begin(Put(tab, c, Session(c, user)), st, off)
             h1 == save_sessions(h0, f)
             h2 == send_text(h1, f, "welcome_user", TRUE)
         IN  act1_opening(h2, f)

cmd_state(tab, st, off, f, c) ==
    IF ~HasSession(tab, c)
    THEN reply_text(Begin(tab, st, off), f, "no_active_session")
    ELSE reply_text(Begin(tab, st, off), f, "state_dump")

\* variant: Reset empties the whole table (SESSIONS.clear())
cmd_reset_all(tab, st, off, f, c) ==
    LET h0 == Begin(EmptyTable, st, off)
        h1 == save_sessions(h0, f)
    IN  reply_text(h1, f, "session_reset")

cmd_reset(tab, st, off, f, c) ==
    LET h0 == Begin(Pop(tab, c), st, off)
        h1 == save_sessions(h0, f)
    IN  reply_text(h1, f, "session_reset")

\* cmd_talk: args are the words after the command; r is the outcome of
\* npc_reply when it was called
cmd_talk(tab, st, off, f, c, args, mode, r) ==
    LET h0 == Begin(tab, st, off)
    IN  IF ~HasSession(tab, c) THEN reply_text(h0, f, "start_first")
        ELSE IF Len(args) < 2 THEN reply_text(h0, f, "talk_usage")
        ELSE LET h1 == send_typing(h0)
                 h2 == Log(h1, Ev("npc", mode, 0, ~r.raised))
                 h3 == [h2 EXCEPT !.raised = r.raised]
             IN  reply_text(h3, f, r.line)

\* the orders in which data.items() may list the entries of the document
Orders(doc) ==
    {o \in [1..Cardinality(DOMAIN doc) -> DOMAIN doc] :
        \A i, j \in DOMAIN o : o[i] = o[j] => i = j}

\* the loop of load_sessions over the entries in the order given: it stops
\* at the first entry for which from_dict or int(k) raises
RECURSIVE LoadEntries(_, _, _)
LoadEntries(tab, doc, order) ==
    IF order = <<>> THEN [tab |-> tab, ok |-> TRUE]
    ELSE LET k == Head(order)
         IN  IF FromDictRaises(doc[k]) \/ ~IntParses(k)
             THEN [tab |-> tab, ok |-> FALSE]
             ELSE LoadEntries(Put(tab, StrToInt(k), from_dict(doc[k])), doc,
                              Tail(order))

\* load_sessions: SESSIONS.clear() comes after the document was read and
\* parsed, and before the loop that rebuilds the table
load_sessions(h, f, order) ==
    IF ~h.store.exists THEN h
    ELSE IF f.read THEN [h EXCEPT !.ioerr = TRUE]
    ELSE LET r == LoadEntries(EmptyTable, h.store.doc, order)
         IN  [h EXCEPT !.tab = r.tab, !.ioerr = ~r.ok]

cmd_save(tab, st, off, f) ==
    reply_text(save_sessions(Begin(tab, st, off), f), f, "progress_saved")

cmd_load(tab, st, off, f, order) ==
    reply_text(load_sessions(Begin(tab, st, off), f, order), f, "progress_loaded")

\* error_handler: an exception that escapes a handler is logged and the chat
\* is told, if the transport lets it
error_handler(h, f) ==
    IF ~h.raised THEN h
    ELSE Log(h, Ev("error_notice", "story_stutters", 0, (h.ns + 1) \notin f.send))

(***************************************************************************)
(* State.                                                                  *)
(***************************************************************************)
VARIABLES
    SESSIONS,   \* dict: chat id -> Session
    store,      \* the SESSION_STORE file
    offered,    \* chat id -> callback tokens of the latest button prompt on screen
    out,        \* transport calls of the latest handler, in order
    last,       \* the latest update: handler, chat, callback data, outcome
    stale,      \* presses so far of buttons the latest prompt does not offer
    faulty,     \* handler runs so far in which the environment refused a call
    ops,        \* updates handled so far (counted in the two-chat specification)
    trail,      \* tokens clicked since the latest Start (kept in SpecTrail)
    queue,      \* updates delivered and not yet dispatched, oldest first
    running,    \* the handlers in flight, with their position in their script
    wire        \* begin, transport calls and end of the handlers, as they happen

\* the update pipeline of SpecQueue
pipeline == <<queue, running, wire>>

vars ==
    <<SESSIONS, store, offered, out, last, stale, faulty, ops, trail, queue,
      running, wire>>

Update(op, c, data, h) ==
    [op |-> op, chat |-> c, data |-> data, wrote |-> h.wrote,
     ioerr |-> h.ioerr, raised |-> h.raised]

\* main(): load_sessions() finds no store, then the handlers wait for updates
Init ==
    /\ SESSIONS = EmptyTable
    /\ store = NoStore
    /\ offered = [c \in Chats |-> {}]
    /\ out = <<>>
    /\ last = [op |-> "boot", chat |-> HostChat, data |-> "", wrote |-> FALSE,
               ioerr |-> FALSE, raised |-> FALSE]
    /\ stale = 0
    /\ faulty = 0
    /\ ops = 0
    /\ trail = {}
    /\ queue = <<>>
    /\ running = <<>>
    /\ wire = <<>>

\* the handler's result becomes the program state
Commit(op, c, data, h, f) ==
    /\ SESSIONS' = h.tab
    /\ store' = h.store
    /\ offered' = [offered EXCEPT ![c] = h.off]
    /\ out' = error_handler(h, f).out
    /\ last' = Update(op, c, data, h)

EvidenceTokens ==
    {"a2_home", "a2_arch", "a2_forest", "morg_revive", "morg_call", "morg_photo"}

\* the evidence list stays within the bound of the model
Room(c, data) ==
    HasSession(SESSIONS, c) /\ data \in EvidenceTokens
        => Len(SESSIONS[c].evidence) < MaxEvidence

Start(c, f) ==
    \E user \in Users :
        Commit("start", c, "", cmd_start(SESSIONS, store, offered[c], f, c, user), f)

Reset(c, f) ==
    Commit("reset", c, "", cmd_reset(SESSIONS, store, offered[c], f, c), f)

State(c, f) ==
    Commit("state", c, "", cmd_state(SESSIONS, store, offered[c], f, c), f)

Save(c, f) ==
    Commit("save", c, "", cmd_save(SESSIONS, store, offered[c], f), f)

Load(c, f) ==
    \E order \in Orders(store.doc) :
        Commit("load", c, "", cmd_load(SESSIONS, store, offered[c], f, order), f)

\* the arguments of the Talk commands of the model
Word_archivist == <<"a", "r", "c", "h">>

Word_why == <<"w", "h", "y">>

TalkArgs == {<<>>, <<Word_archivist>>, <<Word_archivist, Word_why>>}

Talk(c, f) ==
    \E args \in TalkArgs, mode \in OpenAIModes :
        \E r \in (IF Len(args) < 2 THEN {[line |-> "", raised |-> FALSE]}
                   ELSE npc_reply(Join(Tail(args)), mode)) :
            LET h == cmd_talk(SESSIONS, store, offered[c], f, c, args, mode, r)
            IN  /\ SESSIONS' = h.tab
                /\ store' = h.store
                /\ offered' = [offered EXCEPT ![c] = h.off]
                /\ out' = error_handler(h, f).out
                /\ last' = [op |-> "talk", chat |-> c, data |-> "",
                            wrote |-> h.wrote, ioerr |-> h.ioerr,
                            raised |-> h.raised, args |-> Len(args)]

Button(c, f, data) ==
    /\ Room(c, data)
    /\ Commit("button", c, data, on_button(SESSIONS, store, offered[c], f, c, data), f)

\* a click on a button of the latest prompt
ButtonOffered(c, f) == \E data \in offered[c] : Button(c, f, data)

\* a click on a button of an earlier scene, still on screen further up
ButtonStale(c, f) == \E data \in Tokens \ offered[c] : Button(c, f, data)

\* callback data that is not of this story's vocabulary
ButtonUnknown(c, f) == Button(c, f, UnknownToken)

(***************************************************************************)
(* Spec: one chat plays the story by the buttons on screen; the transport  *)
(* and the store accept every call.                                        *)
(***************************************************************************)
Next ==
    /\ UNCHANGED <<stale, faulty, ops, trail, pipeline>>
    /\ \/ Start(HostChat, NoFault)
       \/ Reset(HostChat, NoFault)
       \/ ButtonOffered(HostChat, NoFault)
       \/ ButtonUnknown(HostChat, NoFault)

Spec == Init /\ [][Next]_vars

(***************************************************************************)
(* SpecStale: as Spec, and up to MaxStale clicks on buttons of earlier     *)
(* scenes.                                                                 *)
(***************************************************************************)
PressStale ==
    /\ stale < MaxStale
    /\ stale' = stale + 1
    /\ UNCHANGED <<faulty, ops, trail, pipeline>>
    /\ ButtonStale(HostChat, NoFault)

NextStale == Next \/ PressStale

SpecStale == Init /\ [][NextStale]_vars

(***************************************************************************)
(* SpecFaults: as Spec, and in up to MaxFaulty handler runs the transport  *)
(* or the store refuses one call.                                          *)
(***************************************************************************)
NextFaults ==
    /\ faulty < MaxFaulty
    /\ faulty' = faulty + 1
    /\ UNCHANGED <<stale, ops, trail, pipeline>>
    /\ \E f \in OneFault :
          \/ Start(HostChat, f)
          \/ Reset(HostChat, f)
          \/ ButtonOffered(HostChat, f)
          \/ ButtonUnknown(HostChat, f)

SpecFaults == Init /\ [][Next \/ NextFaults]_vars

(***************************************************************************)
(* SpecChats: two chats, every command but Talk, faults; MaxOps updates.   *)
(***************************************************************************)
NextChats ==
    /\ ops < MaxOps
    /\ ops' = ops + 1
    /\ UNCHANGED <<stale, faulty, trail, pipeline>>
    /\ \E c \in Chats, f \in Faults :
          \/ Start(c, f)
          \/ Reset(c, f)
          \/ State(c, f)
          \/ Save(c, f)
          \/ Load(c, f)
          \/ ButtonOffered(c, f)
          \/ ButtonUnknown(c, f)

SpecChats == Init /\ [][NextChats]_vars

(***************************************************************************)
(* SpecTalk: two chats start, play, reset and talk to the NPCs; the        *)
(* transport may refuse a call of a Talk command.                          *)
(***************************************************************************)
NextTalk ==
    /\ ops < MaxOps
    /\ ops' = ops + 1
    /\ UNCHANGED <<stale, faulty, trail, pipeline>>
    /\ \E c \in Chats :
          \/ Start(c, NoFault)
          \/ Reset(c, NoFault)
          \/ ButtonOffered(c, NoFault)
          \/ \E f \in Faults : Talk(c, f)

SpecTalk == Init /\ [][NextTalk]_vars

(***************************************************************************)
(* SpecTrail: one chat starts the story and plays it by the buttons of the *)
(* latest prompt; trail keeps the tokens clicked since the Start.          *)
(***************************************************************************)
StartTrail ==
    /\ Start(HostChat, NoFault)
    /\ trail' = {}

PressTrail ==
    \E data \in offered[HostChat] :
        /\ Button(HostChat, NoFault, data)
        /\ trail' = trail \cup {data}

NextTrail ==
    /\ UNCHANGED <<stale, faulty, ops, pipeline>>
    /\ (StartTrail \/ PressTrail)

SpecTrail == Init /\ [][NextTrail]_vars

(***************************************************************************)
(* SpecWrites: one chat; Start, Reset, clicks on the buttons on screen and *)
(* up to MaxStale clicks on buttons of earlier scenes; the store accepts   *)
(* every write while the transport may refuse one call of a handler run;   *)
(* MaxOps updates.                                                         *)
(***************************************************************************)
TransportFaults == {f \in Faults : f.save = {} /\ ~f.read}

NextWrites ==
    /\ ops < MaxOps
    /\ ops' = ops + 1
    /\ UNCHANGED <<faulty, trail, pipeline>>
    /\ \E f \in TransportFaults :
          \/ Start(HostChat, f) /\ UNCHANGED stale
          \/ Reset(HostChat, f) /\ UNCHANGED stale
          \/ ButtonOffered(HostChat, f) /\ UNCHANGED stale
          \/ /\ stale < MaxStale
             /\ stale' = stale + 1
             /\ ButtonStale(HostChat, f)

SpecWrites == Init /\ [][NextWrites]_vars

(***************************************************************************)
(* SpecJump: one chat; Start and clicks on any button of the story, on     *)
(* screen or of an earlier message; the transport and the store accept     *)
(* every call; MaxOps updates.                                             *)
(***************************************************************************)
NextJump ==
    /\ ops < MaxOps
    /\ ops' = ops + 1
    /\ UNCHANGED <<stale, faulty, trail, pipeline>>
    /\ \/ Start(HostChat, NoFault)
       \/ \E data \in Tokens : Button(HostChat, NoFault, data)

SpecJump == Init /\ [][NextJump]_vars

(***************************************************************************)
(* SpecNav: one chat; Start, clicks on the buttons on screen, clicks on    *)
(* the navigation buttons at any time, State and Talk commands, MaxOps     *)
(* updates in all; during up to MaxFaulty of the navigation clicks and of  *)
(* the State and Talk commands the transport or the store refuses a call.  *)
(***************************************************************************)
\* the tokens whose branch only calls a scene routine
NavTokens == {"goto_morgue", "goto_flood", "arch_press"}

NextNav ==
    /\ ops < MaxOps
    /\ ops' = ops + 1
    /\ UNCHANGED <<stale, trail, pipeline>>
    /\ \/ /\ UNCHANGED faulty
          /\ \/ Start(HostChat, NoFault)
             \/ ButtonOffered(HostChat, NoFault)
             \/ \E data \in NavTokens : Button(HostChat, NoFault, data)
             \/ State(HostChat, NoFault)
             \/ Talk(HostChat, NoFault)
       \/ /\ faulty < MaxFaulty
          /\ faulty' = faulty + 1
          /\ \E f \in OneFault :
                \/ \E data \in NavTokens : Button(HostChat, f, data)
                \/ State(HostChat, f)
                \/ Talk(HostChat, f)

SpecNav == Init /\ [][NextNav]_vars

(***************************************************************************)
(* SpecRefire: one chat plays the story by the buttons of the latest       *)
(* prompt; once the session is at The End, the ending buttons of the       *)
(* finale prompt, still on screen, are clicked again, up to MaxStale times *)
(* per session.                                                            *)
(***************************************************************************)
StartRefire ==
    /\ Start(HostChat, NoFault)
    /\ stale' = 0

PressRefire ==
    /\ ButtonOffered(HostChat, NoFault)
    /\ UNCHANGED stale

Refire ==
    /\ stale < MaxStale
    /\ HasSession(SESSIONS, HostChat)
    /\ SESSIONS[HostChat].act = THE_END
    /\ \E data \in EndTokens : Button(HostChat, NoFault, data)
    /\ stale' = stale + 1

NextRefire ==
    /\ UNCHANGED <<faulty, ops, trail, pipeline>>
    /\ (StartRefire \/ PressRefire \/ Refire)

SpecRefire == Init /\ [][NextRefire]_vars

(***************************************************************************)
(* SpecStore: two chats start, play, save and load while the store file    *)
(* may be refused on write or on read, and may have been edited between    *)
(* two updates so that an entry lacks a key Session.from_dict requires.    *)
(***************************************************************************)
RequiredKeys == {"chat_id", "owner_id"}

\* the store file is edited outside the program: entry k loses key x
EditStore ==
    /\ store.exists
    /\ \E k \in DOMAIN store.doc, x \in RequiredKeys :
          /\ x \in DOMAIN store.doc[k]
          /\ store' = [store EXCEPT !.doc[k] =
                          [y \in (DOMAIN store.doc[k]) \ {x} |-> store.doc[k][y]]]
    /\ out' = <<>>
    /\ last' = [op |-> "edit_store", chat |-> HostChat, data |-> "",
                wrote |-> FALSE, ioerr |-> FALSE, raised |-> FALSE]
    /\ UNCHANGED <<SESSIONS, offered>>

StoreFaults == {NoFault, [NoFault EXCEPT !.save = {1}], [NoFault EXCEPT !.read = TRUE]}

NextStore ==
    /\ ops < MaxOps
    /\ ops' = ops + 1
    /\ UNCHANGED <<stale, faulty, trail, pipeline>>
    /\ \/ \E c \in Chats : Start(c, NoFault)
       \/ \E c \in Chats : ButtonOffered(c, NoFault)
       \/ \E c \in Chats, f \in StoreFaults : Save(c, f)
       \/ \E c \in Chats, f \in StoreFaults : Load(c, f)
       \/ EditStore

SpecStore == Init /\ [][NextStore]_vars

(***************************************************************************)
(* SpecQueue: the application built by main() takes the updates of one     *)
(* chat from its queue one at a time and awaits the handler of each; the   *)
(* user sends /start or clicks a button on screen at any moment, also      *)
(* while a handler is suspended at a transport call or a pause.            *)
(***************************************************************************)
\* the handler registered for update u, run on the present table
Handle(u) ==
    IF u.op = "start"
    THEN cmd_start(SESSIONS, store, offered[u.chat], NoFault, u.chat, u.user)
    ELSE on_button(SESSIONS, store, offered[u.chat], NoFault, u.chat, u.data)

\* the updates the user of chat c can send now; n numbers them as delivered
Sendable(c, n) ==
    {[op |-> "start", chat |-> c, data |-> "", user |-> u, n |-> n] : u \in Users}
    \cup {[op |-> "button", chat |-> c, data |-> d, user |-> NoUser, n |-> n] :
             d \in offered[c]}

\* the transport delivers an update: it joins the queue
Deliver ==
    /\ ops < MaxOps
    /\ Len(queue) < MaxQueue
    /\ \E u \in Sendable(HostChat, ops + 1) : queue' = Append(queue, u)
    /\ ops' = ops + 1
    /\ UNCHANGED <<SESSIONS, store, offered, out, last, stale, faulty, trail,
                   running, wire>>

\* variant: updates are processed concurrently (concurrent_updates=True)
Dispatch_concurrent ==
    /\ queue # <<>>
    /\ Room(Head(queue).chat, Head(queue).data)
    /\ running' = Append(running, [u |-> Head(queue), h |-> Handle(Head(queue)),
                                   pos |-> 0])
    /\ queue' = Tail(queue)
    /\ wire' = Append(wire, [n |-> Head(queue).n, k |-> "begin"])
    /\ UNCHANGED <<SESSIONS, store, offered, out, last, stale, faulty, ops, trail>>

\* the application takes the oldest update once no handler is in flight, and
\* its handler starts: it looks the session up
Dispatch ==
    /\ running = <<>>
    /\ queue # <<>>
    /\ Room(Head(queue).chat, Head(queue).data)
    /\ running' = Append(running, [u |-> Head(queue), h |-> Handle(Head(queue)),
                                   pos |-> 0])
    /\ queue' = Tail(queue)
    /\ wire' = Append(wire, [n |-> Head(queue).n, k |-> "begin"])
    /\ UNCHANGED <<SESSIONS, store, offered, out, last, stale, faulty, ops, trail>>

\* a handler in flight makes its next transport call or pause
Emit ==
    \E i \in DOMAIN running :
        LET r == running[i]
        IN  /\ r.pos < Len(r.h.out)
            /\ running' = [running EXCEPT ![i].pos = r.pos + 1]
            /\ wire' = Append(wire, [n |-> r.u.n, k |-> r.h.out[r.pos + 1].k])
            /\ UNCHANGED <<SESSIONS, store, offered, out, last, stale, faulty,
                           ops, trail, queue>>

\* a handler in flight returns
Return ==
    \E i \in DOMAIN running :
        LET r == running[i]
        IN  /\ r.pos = Len(r.h.out)
            /\ Commit(r.u.op, r.u.chat, r.u.data, r.h, NoFault)
            /\ running' = SubSeq(running, 1, i - 1)
                              \o SubSeq(running, i + 1, Len(running))
            /\ wire' = Append(wire, [n |-> r.u.n, k |-> "end"])
            /\ UNCHANGED <<stale, faulty, ops, trail, queue>>

NextQueue == Deliver \/ Dispatch \/ Emit \/ Return

SpecQueue == Init /\ [][NextQueue]_vars

(***************************************************************************)
(* SpecAnimate: animate_frames on every frame list of up to MaxFrames      *)
(* frames, under every set of refused edits and at most one refused send.  *)
(***************************************************************************)
FrameTexts == {"frame_a", "frame_b"}

FrameLists == UNION {[1..n -> FrameTexts] : n \in 0..MaxFrames}

AnimateFaults ==
    {[NoFault EXCEPT !.edit = e, !.send = s] :
        e \in SUBSET (1..MaxFrames),
        s \in {{}} \cup {{n} : n \in 1..MaxFrames}}

Animate ==
    \E frames \in FrameLists, f \in AnimateFaults :
        LET h == animate_frames(Begin(SESSIONS, store, offered[HostChat]), f, frames)
        IN  /\ last.op = "boot"
            /\ out' = h.out
            /\ last' = [op |-> "animate", chat |-> HostChat, data |-> "",
                        wrote |-> FALSE, ioerr |-> FALSE, raised |-> h.raised,
                        frames |-> frames, msg |-> h.msg]
            /\ UNCHANGED <<SESSIONS, store, offered, stale, faulty, ops, trail, pipeline>>

SpecAnimate == Init /\ [][Animate]_vars

(***************************************************************************)
(* SpecNpc: npc_reply on every utterance of up to MaxWords words of a      *)
(* small vocabulary, with and without the OpenAI strategy.                 *)
(***************************************************************************)
Vocabulary ==
    {Word_why, <<"W", "H", "Y">>, <<"h", "e", "l", "p">>,
     <<"w", "o", "n", "t">>, <<"s", "h", "o", "w">>, <<"r", "a", "i", "n">>}

Utterances == UNION {[1..n -> Vocabulary] : n \in 0..MaxWords}

NpcReply ==
    \E words \in Utterances, mode \in OpenAIModes :
        \E r \in npc_reply(Join(words), mode) :
            /\ last.op = "boot"
            /\ last' = [op |-> "npc", chat |-> HostChat, data |-> "",
                        wrote |-> FALSE, ioerr |-> FALSE, raised |-> r.raised,
                        text |-> Join(words), mode |-> mode, reply |-> r.line]
            /\ UNCHANGED <<SESSIONS, store, offered, out, stale, faulty,
                           ops, trail, pipeline>>

SpecNpc == Init /\ [][NpcReply]_vars

(***************************************************************************)
(* Properties.                                                             *)
(***************************************************************************)
\* the key of chat c in the store document
KeyOf(c) == IntToStr(c)

\* the click was acknowledged: query.answer() went through
Acked(o) == Len(o) >= 1 /\ o[1].k = "answer" /\ o[1].ok

IsHandlerCall(e) == e.k \notin {"answer", "error_notice"}

\* the transport calls of the handler after the acknowledgement
Body(o) == SelectSeq(o, IsHandlerCall)

\* the handler asked for exactly one rewrite of the button message, to text t
OneNotice(o, t) == Len(Body(o)) = 1 /\ Body(o)[1].k = "notice" /\ Body(o)[1].t = t

Has(o, k, t) == \E i \in 1..Len(o) : o[i].k = k /\ o[i].t = t

\* C1: after the Start command of any chat, whatever the chat's session was
\* before and whichever call the transport or the store refused during the
\* command, the chat has a session with act = Act1 and empty flags, evidence and
\* inventory.
StartResets ==
    last.op = "start" =>
        /\ HasSession(SESSIONS, last.chat)
        /\ SESSIONS[last.chat].act = ACT_1
        /\ DOMAIN SESSIONS[last.chat].flags = {}
        /\ SESSIONS[last.chat].evidence = <<>>
        /\ SESSIONS[last.chat].inventory = <<>>

\* Start has run on a session that had reached Act3 with a flag and a piece
\* of evidence: the store, whose write the command could not make, still
\* shows that session
StartOverPlayedSession ==
    /\ last.op = "start"
    /\ store.exists
    /\ KeyOf(last.chat) \in DOMAIN store.doc
    /\ store.doc[KeyOf(last.chat)].act = ACT_3
    /\ store.doc[KeyOf(last.chat)].evidence # <<>>
    /\ DOMAIN store.doc[KeyOf(last.chat)].flags # {}
    /\ SESSIONS[last.chat].act = ACT_1

\* C2: a click on a button of the vocabulary that the scene on screen does
\* not offer leaves flags, evidence and act as they were and asks for
\* exactly one fallback notice and nothing else.
StaleClickChangesNothing ==
    [][(stale' = stale + 1 /\ HasSession(SESSIONS, HostChat)) =>
          /\ HasSession(SESSIONS', HostChat)
          /\ SESSIONS'[HostChat].flags = SESSIONS[HostChat].flags
          /\ SESSIONS'[HostChat].evidence = SESSIONS[HostChat].evidence
          /\ SESSIONS'[HostChat].act = SESSIONS[HostChat].act
          /\ OneNotice(out', "rearranges_punctuation")]_vars

\* C3: within a session, whatever buttons are pressed (offered ones, ones of
\* earlier scenes, ones pressed after The End), act never decreases.
ActNeverDecreases ==
    [][(last'.op = "button" /\ HasSession(SESSIONS, last'.chat)) =>
          SESSIONS'[last'.chat].act >= SESSIONS[last'.chat].act]_vars

\* C4: when only buttons of the latest prompt are pressed, a button press
\* never lowers act, and act becomes The End only in a press of end_save,
\* end_veil or end_burn.
OfferedPlayAdvances ==
    [][(last'.op = "button" /\ HasSession(SESSIONS, last'.chat)) =>
          /\ SESSIONS'[last'.chat].act >= SESSIONS[last'.chat].act
          /\ (SESSIONS'[last'.chat].act = THE_END
                 /\ SESSIONS[last'.chat].act # THE_END)
                => last'.data \in EndTokens]_vars

\* a playthrough has reached The End by an ending button
ReachedEnding ==
    /\ last.op = "button"
    /\ last.data = "end_burn"
    /\ HasSession(SESSIONS, HostChat)
    /\ SESSIONS[HostChat].act = THE_END
    /\ "route" \in DOMAIN SESSIONS[HostChat].flags

\* C5: a button click in a chat that has no session changes no session of
\* any chat, creates none, leaves the store alone, runs no scene routine,
\* and (once the click is acknowledged) asks for exactly one "session
\* expired" notice.
MissingSessionNotice ==
    [][(last'.op = "button" /\ ~HasSession(SESSIONS, last'.chat)) =>
          /\ SESSIONS' = SESSIONS
          /\ store' = store
          /\ offered' = offered
          /\ IF Acked(out') THEN OneNotice(out', "session_expired")
             ELSE Body(out') = <<>>]_vars

\* a story button was clicked in a chat whose session was reset while the
\* other chat has a session
ClickAfterReset ==
    /\ last.op = "button"
    /\ last.data \in Tokens
    /\ ~HasSession(SESSIONS, last.chat)
    /\ DOMAIN SESSIONS # {}
    /\ OneNotice(out, "session_expired")

\* C6: a click with callback data outside the vocabulary, on an existing
\* session, changes nothing in the session table or the store, asks for
\* exactly one generic notice, and does not raise when the transport
\* refuses that notice.
UnknownTokenNotice ==
    [][(last'.op = "button" /\ last'.data = UnknownToken
           /\ HasSession(SESSIONS, last'.chat)) =>
          /\ SESSIONS' = SESSIONS
          /\ store' = store
          /\ Acked(out') =>
                /\ ~last'.raised
                /\ OneNotice(out', "rearranges_punctuation")]_vars

\* the generic notice was refused by the transport and the handler returned
UnknownNoticeRefused ==
    /\ last.op = "button"
    /\ last.data = UnknownToken
    /\ HasSession(SESSIONS, last.chat)
    /\ OneNotice(out, "rearranges_punctuation")
    /\ ~Body(out)[1].ok
    /\ ~last.raised

\* a frame on screen: an accepted new message or an accepted in-place edit
IsDisplay(e) == e.k \in {"text", "edit"} /\ e.ok

Displays(o) == SelectSeq(o, IsDisplay)

\* the position in the log of the i-th frame put on screen
DisplayAt(o, i) ==
    CHOOSE j \in 1..Len(o) :
        /\ IsDisplay(o[j])
        /\ Cardinality({k \in 1..j : IsDisplay(o[k])}) = i

Count(o, k, ok) == Cardinality({j \in 1..Len(o) : o[j].k = k /\ o[j].ok = ok})

\* the transport refused a new message
SendRefused(o) == \E j \in 1..Len(o) : o[j].k = "text" /\ ~o[j].ok

\* C7: animate_frames with N >= 1 frames, the transport accepting new
\* messages and refusing any subset of the edits, puts exactly the N frames
\* on screen in order, each once, with exactly one wait between consecutive
\* frames; each refused edit is followed at once by one new message that
\* carries the same frame.
AnimateShowsEveryFrame ==
    (last.op = "animate" /\ Len(last.frames) >= 1 /\ ~SendRefused(out)) =>
        LET n == Len(last.frames)
        IN  /\ Len(Displays(out)) = n
            /\ \A i \in 1..n : Displays(out)[i].t = last.frames[i]
            /\ Count(out, "sleep", TRUE) = n - 1
            /\ \A i \in 2..n :
                  \E j \in (DisplayAt(out, i - 1) + 1)..(DisplayAt(out, i) - 1) :
                      out[j].k = "sleep"
            /\ \A j \in 1..Len(out) :
                  (out[j].k = "edit" /\ ~out[j].ok) =>
                      /\ j < Len(out)
                      /\ out[j + 1] = Ev("text", out[j].t, out[j + 1].m, TRUE)
            /\ Count(out, "text", TRUE) = 1 + Count(out, "edit", FALSE)

\* a run of four frames in which the second and the last edit were refused
AnimateWithRefusedEdits ==
    /\ last.op = "animate"
    /\ Len(last.frames) = 4
    /\ ~SendRefused(out)
    /\ Count(out, "edit", FALSE) = 2
    /\ Count(out, "edit", TRUE) = 1
    /\ out[Len(out)].k = "text"

\* the message that the latest accepted send before position j created
TargetAt(o, j) ==
    LET sent == {k \in 1..(j - 1) : o[k].k = "text" /\ o[k].ok}
    IN  o[CHOOSE k \in sent : \A x \in sent : x <= k].m

\* C8: animate_frames does not raise when the transport refuses edits (and
\* accepts new messages): every edit targets the newest message the call has
\* sent, so after a refused edit the later edits go to the fallback message;
\* the handle returned is the message showing the last frame; an empty frame
\* list sends the single filler message "...".
AnimateRetargets ==
    (last.op = "animate" /\ ~SendRefused(out)) =>
        /\ ~last.raised
        /\ \A j \in 1..Len(out) : out[j].k = "edit" => out[j].m = TargetAt(out, j)
        /\ Len(Displays(out)) >= 1
        /\ last.msg = Displays(out)[Len(Displays(out))].m
        /\ last.frames = <<>> =>
              /\ Displays(out) = <<Ev("text", "...", 1, TRUE)>>
              /\ Count(out, "edit", TRUE) + Count(out, "edit", FALSE) = 0

\* an edit was refused, the frame went out as a second message and a later
\* edit on that second message was accepted
AnimateEditsFallback ==
    /\ last.op = "animate"
    /\ ~last.raised
    /\ \E i, j \in 1..Len(out) :
          /\ i < j
          /\ out[i].k = "edit" /\ ~out[i].ok /\ out[i].m = 1
          /\ out[j].k = "edit" /\ out[j].ok /\ out[j].m = 2
    /\ last.msg = 2

\* C9: after end_save on a session, act is The End; if revived_lila or
\* lila_hidden is set the handler rendered the mercy frames and asked for the
\* bonus video; if neither is set it rendered the smoke frames and asked for
\* no video.
EndSaveBranches ==
    (last.op = "button" /\ last.data = "end_save"
        /\ HasSession(SESSIONS, last.chat)) =>
        LET flags == SESSIONS[last.chat].flags
            mercy == FlagSet(flags, "revived_lila") \/ FlagSet(flags, "lila_hidden")
        IN  /\ SESSIONS[last.chat].act = THE_END
            /\ mercy =>
                  /\ Has(out, "edit", "chooses_mercy")
                  /\ Has(out, "video", "final_clip")
                  /\ ~Has(out, "edit", "name_on_flame")
            /\ ~mercy =>
                  /\ Has(out, "text", "only_smoke")
                  /\ Has(out, "edit", "name_on_flame")
                  /\ \A i \in 1..Len(out) : out[i].k # "video"
                  /\ ~Has(out, "edit", "chooses_mercy")

\* end_save on a session that hid Lila without reviving her
EndSaveAfterHiding ==
    /\ last.op = "button"
    /\ last.data = "end_save"
    /\ HasSession(SESSIONS, last.chat)
    /\ FlagSet(SESSIONS[last.chat].flags, "lila_hidden")
    /\ ~FlagSet(SESSIONS[last.chat].flags, "revived_lila")
    /\ Has(out, "video", "final_clip")

PersistenceFailureKeepsTable ==
    [][last'.op \in {"save", "load"} /\ last'.ioerr
          => ~last'.raised /\ SESSIONS' = SESSIONS]_vars

\* C12: a Talk command with fewer than two arguments, in a chat with or
\* without a session, does not call npc_reply and answers with the usage
\* string.
TalkUsage ==
    last.op = "talk" /\ last.args < 2
        => ~(\E i \in 1..Len(out) : out[i].k = "npc")
           /\ Len(out) >= 1 /\ out[1].k = "reply" /\ out[1].t = "talk_usage"

\* the utterance as npc_reply tests it
Low(text) == Lower(Strip(text))

\* the reply came from the rule-based strategy
Templated == last.op = "npc" /\ last.mode # "ok"

\* the distress keywords as the specification lists them
StatedDistress == Distress \ {<<"w", "o", "n", "t">>}

\* C13 (amended): the Template strategy answers an utterance that contains
\* an interrogative keyword with a line of the mystery pool; one that
\* contains no interrogative keyword but a distress keyword (save, help,
\* please, can't, wont, won't) with a line of the comfort pool; and any
\* other with a line of the atmospheric pool.
TemplateReplyPools ==
    Templated =>
        LET int == AnyIn(Low(last.text), Interrogatives)
            dis == AnyIn(Low(last.text), Distress)
        IN  /\ int => last.reply \in MysteryPool
            /\ ~int /\ dis => last.reply \in ComfortPool
            /\ ~int /\ ~dis => last.reply \in AtmosphericPool

\* an utterance with keywords of both classes was answered from the mystery pool
BothClassesAnswered ==
    /\ Templated
    /\ AnyIn(Low(last.text), Interrogatives)
    /\ AnyIn(Low(last.text), Distress)
    /\ last.reply \in MysteryPool

\* C13 as stated: mystery pool for every utterance with an interrogative
\* keyword, comfort pool for every utterance with one of save, help, please,
\* can't, won't, atmospheric pool for every utterance with neither.
TemplateReplyPoolsAsStated ==
    Templated =>
        LET int == AnyIn(Low(last.text), Interrogatives)
            dis == AnyIn(Low(last.text), StatedDistress)
        IN  /\ int => last.reply \in MysteryPool
            /\ dis => last.reply \in ComfortPool
            /\ ~int /\ ~dis => last.reply \in AtmosphericPool

\* the sessions of the chats other than c are the same in both tables
OthersKept(old, new, c) ==
    \A b \in Chats \ {c} :
        /\ HasSession(new, b) <=> HasSession(old, b)
        /\ HasSession(old, b) => new[b] = old[b]

\* C14: the table holds each session under its own chat id; Start leaves
\* the invoking chat with a fresh session and Reset leaves it with none,
\* neither touches the session of another chat, and a button click that
\* follows the Reset of its chat gets the "session expired" notice and
\* changes nothing.
OneSessionPerChat ==
    [][/\ \A c \in DOMAIN SESSIONS' : SESSIONS'[c].chat_id = c
       /\ last'.op = "start"
            => /\ HasSession(SESSIONS', last'.chat)
               /\ \E u \in Users :
                     SESSIONS'[last'.chat] = Session(last'.chat, u)
               /\ OthersKept(SESSIONS, SESSIONS', last'.chat)
       /\ last'.op = "reset"
            => /\ ~HasSession(SESSIONS', last'.chat)
               /\ OthersKept(SESSIONS, SESSIONS', last'.chat)
       /\ last.op = "reset" /\ last'.op = "button" /\ last'.chat = last.chat
            => /\ SESSIONS' = SESSIONS
               /\ Acked(out') => OneNotice(out', "session_expired")]_vars

\* one chat was reset while the other chat holds a session it has played
ResetBesidePlayedChat ==
    /\ last.op = "reset"
    /\ \E b \in Chats \ {last.chat} :
          HasSession(SESSIONS, b) /\ DOMAIN SESSIONS[b].flags # {}

\* s is an initial part of t
IsPrefix(s, t) == Len(s) <= Len(t) /\ SubSeq(t, 1, Len(s)) = s

\* C15: from one update to the next, unless the update is the Start or the
\* Reset of the chat, a chat that has a session still has one, its evidence
\* is the old evidence with entries appended, and every flag key is kept.
EvidenceAndFlagsOnlyGrow ==
    [][\A c \in Chats :
          HasSession(SESSIONS, c)
          /\ ~(last'.op \in {"start", "reset"} /\ last'.chat = c)
            => /\ HasSession(SESSIONS', c)
               /\ IsPrefix(SESSIONS[c].evidence, SESSIONS'[c].evidence)
               /\ DOMAIN SESSIONS[c].flags \subseteq DOMAIN SESSIONS'[c].flags]_vars

\* C16: a button click, Talk, State, Save or Load of one chat leaves the
\* session of every other chat as it was: none changed, added or removed.
OtherChatsUntouched ==
    [][last'.op \in {"button", "talk", "state", "save", "load"}
          => OthersKept(SESSIONS, SESSIONS', last'.chat)]_vars

\* C17: an acknowledged button click with a token of the vocabulary, in a
\* chat that has a session, runs to its end without an exception leaving
\* on_button, whichever transport call of the scene script is refused.
DispatchNeverRaises ==
    [][(/\ last'.op = "button"
        /\ last'.data \in Tokens
        /\ HasSession(SESSIONS, last'.chat)
        /\ Acked(out'))
          => ~last'.raised]_vars

MediaKinds == {"photo", "audio", "video"}

\* the messages of a handler run that reached the chat
Delivered(o) ==
    Cardinality({i \in 1..Len(o) :
                    o[i].ok /\ o[i].k \in MediaKinds \cup {"text", "buttons"}})

MediaRefused(o) == \E i \in 1..Len(o) : o[i].k \in MediaKinds /\ ~o[i].ok

\* the transport calls the same handler makes when no call is refused
Undisturbed(op, c, data) ==
    IF op = "button"
    THEN on_button(SESSIONS, store, offered[c], NoFault, c, data).out
    ELSE cmd_start(SESSIONS, store, offered[c], NoFault, c,
                   CHOOSE u \in Users : TRUE).out

\* C18: in a Start or a button click that completes with a photo, audio or
\* video send refused, a text message stands in for the refused media: the
\* chat receives as many messages as it does when the media is accepted.
MediaReplacedByText ==
    [][(/\ last'.op \in {"start", "button"}
        /\ ~last'.raised
        /\ MediaRefused(out'))
          => Delivered(out') = Delivered(Undisturbed(last'.op, last'.chat, last'.data))]_vars

\* C19: in a playthrough by the buttons of the latest prompt, no token is
\* clicked a second time, so no scene is rendered twice.
NoSceneTwice ==
    [][last'.op = "button" => last'.data \notin trail]_vars

\* C20: in every button click, with or without a session and whatever the
\* token, query.answer() is the first call made and is made once; when it is
\* refused nothing was done before it and nothing is done after it: the
\* table and the store are unchanged and no message is sent or edited.
AckFirst ==
    [][last'.op = "button"
          => /\ Len(out') >= 1
             /\ out'[1].k = "answer"
             /\ \A i \in 2..Len(out') : out'[i].k # "answer"
             /\ ~out'[1].ok
                  => /\ SESSIONS' = SESSIONS
                     /\ store' = store
                     /\ Body(out') = <<>>]_vars

\* the acknowledgement of a click on an offered button was refused
RefusedAckOnKnownToken ==
    /\ last.op = "button"
    /\ last.data \in Tokens
    /\ HasSession(SESSIONS, last.chat)
    /\ out[1].k = "answer"
    /\ ~out[1].ok

\* C21: the handlers of the updates of a chat run one after the other in the
\* order the updates were delivered: a handler begins only after every
\* handler that began before it has ended, so nothing of a later click (its
\* session lookup, its mutations, its messages) precedes the last directive
\* of the script in flight.
NoPreemption ==
    \A i, j \in DOMAIN wire :
        i < j =>
            /\ wire[i].n <= wire[j].n
            /\ wire[j].k = "begin" /\ wire[i].n # wire[j].n
                 => \E m \in 1..(j - 1) : wire[m].n = wire[i].n /\ wire[m].k = "end"

\* a click on a button on screen waits in the queue while the script of an
\* earlier click is between two of its directives
ClickWaitsMidScript ==
    /\ Len(running) = 1
    /\ running[1].u.op = "button"
    /\ running[1].pos > 0
    /\ running[1].pos < Len(running[1].h.out)
    /\ queue # <<>>
    /\ Head(queue).op = "button"
    /\ Head(queue).chat = running[1].u.chat

\* C22: with USE_OPENAI set, when the generation call raises or its response
\* is malformed, npc_reply does not raise and returns a line of the pool the
\* Template strategy draws from for the same utterance.
GeneratedFailureFallsBack ==
    last.op = "npc" /\ last.mode \in {"raises", "malformed"}
        => ~last.raised /\ last.reply \in TemplatePool(last.text)

\* a malformed response to an utterance of distress was answered by the template
MalformedAnsweredByTemplate ==
    /\ last.op = "npc"
    /\ last.mode = "malformed"
    /\ ~last.raised
    /\ last.reply \in ComfortPool

\* C23: a click on end_save, end_veil or end_burn in a session that is
\* already at The End, with the transport accepting the calls, does not
\* raise, leaves act at The End and leaves flags and evidence as they were.
RefiredEndingKeepsState ==
    [][(/\ last'.op = "button"
        /\ last'.data \in EndTokens
        /\ HasSession(SESSIONS, last'.chat)
        /\ SESSIONS[last'.chat].act = THE_END)
          => /\ ~last'.raised
             /\ SESSIONS'[last'.chat].act = THE_END
             /\ SESSIONS'[last'.chat].flags = SESSIONS[last'.chat].flags
             /\ SESSIONS'[last'.chat].evidence = SESSIONS[last'.chat].evidence]_vars

\* an ending was fired again in a session with flags and evidence
EndingRefired ==
    /\ stale >= 1
    /\ last.op = "button"
    /\ last.data \in EndTokens
    /\ SESSIONS[HostChat].act = THE_END
    /\ SESSIONS[HostChat].evidence # <<>>
    /\ DOMAIN SESSIONS[HostChat].flags # {}

\* the tokens of the three routes of Act 4 and the name each one records
RouteTokens == {"a4_break", "a4_burn", "a4_hunt"}

RouteName(data) ==
    CASE data = "a4_break" -> "break"
      [] data = "a4_burn" -> "burn"
      [] data = "a4_hunt" -> "hunt"

\* C24: a click on a4_break, a4_burn or a4_hunt in a chat with a session sets
\* flags['route'] to break, burn or hunt respectively, leaves every other flag
\* as it was, sets act to Act 5 and renders the finale prompt with the three
\* ending buttons; the line about Lila's presence as the anchor is sent
\* exactly when the token is a4_break and lila_hidden or revived_lila was set
\* before the click, so a4_burn and a4_hunt never send it.
RoutesToFinale ==
    [][(/\ last'.op = "button"
        /\ last'.data \in RouteTokens
        /\ HasSession(SESSIONS, last'.chat))
          => LET c == last'.chat
                 before == SESSIONS[c].flags
                 after == SESSIONS'[c].flags
             IN  /\ ~last'.raised
                 /\ "route" \in DOMAIN after
                 /\ after["route"] = RouteName(last'.data)
                 /\ \A k \in DOMAIN before \ {"route"} :
                        k \in DOMAIN after /\ after[k] = before[k]
                 /\ DOMAIN after = DOMAIN before \cup {"route"}
                 /\ SESSIONS'[c].act = ACT_5
                 /\ Has(out', "buttons", "final_choice")
                 /\ offered'[c] = EndTokens
                 /\ Has(out', "text", "lila_anchor")
                      <=> /\ last'.data = "a4_break"
                          /\ \/ FlagSet(before, "lila_hidden")
                             \/ FlagSet(before, "revived_lila")]_vars

\* a4_break on a session that hid Lila without reviving her: the anchor line
\* was sent before the finale prompt
BreakAfterHiding ==
    /\ last.op = "button"
    /\ last.data = "a4_break"
    /\ HasSession(SESSIONS, last.chat)
    /\ FlagSet(SESSIONS[last.chat].flags, "lila_hidden")
    /\ ~FlagSet(SESSIONS[last.chat].flags, "revived_lila")
    /\ SESSIONS[last.chat].flags["route"] = "break"
    /\ Has(out, "text", "lila_anchor")
    /\ Has(out, "buttons", "final_choice")

\* the store holds the table: no file and no session, or a document with
\* the same chat ids and for each the dict of its session
Persisted(st, tab) ==
    IF st.exists THEN st.doc = DumpTable(tab) ELSE tab = EmptyTable

\* C25: with the store accepting every write, after a Start command, a Reset
\* command or a click on a button of the story that ran to its end, the
\* document of the store equals the session table in memory: the same chat
\* ids and for each the same act, flags and evidence.
StoreFollowsTable ==
    (/\ \/ last.op \in {"start", "reset"}
        \/ last.op = "button" /\ last.data \in Tokens
     /\ ~last.raised)
       => Persisted(store, SESSIONS)

\* the longest walk of clicks tried when looking for a way to an ending
MaxPath == 8

\* whether at most n clicks on the buttons on screen, each on the prompt
\* the click before it rendered, bring the session of chat c to The End
RECURSIVE CanEnd(_, _, _, _, _)
CanEnd(tab, st, off, c, n) ==
    \/ tab[c].act = THE_END
    \/ /\ n > 0
       /\ \E data \in off :
             LET h == on_button(tab, st, off, NoFault, c, data)
             IN  ~h.raised /\ CanEnd(h.tab, h.store, h.off, c, n - 1)

\* C26: whenever a Start command or a click on a button on screen leaves the
\* chat with a session, every button now on screen carries a token that
\* on_button has a branch for, the click itself was not answered by the
\* unknown-action notice, and some sequence of clicks on the buttons on
\* screen brings the session to act The End.
NoDeadEnds ==
    [][(/\ \/ last'.op = "start"
           \/ last'.op = "button" /\ last'.data \in offered[last'.chat]
        /\ HasSession(SESSIONS', last'.chat))
          => LET c == last'.chat
             IN  /\ offered'[c] \subseteq Tokens
                 /\ (last'.op = "button" /\ HasSession(SESSIONS, c))
                       => ~Has(out', "notice", "rearranges_punctuation")
                 /\ CanEnd(SESSIONS', store', offered'[c], c, MaxPath)]_vars

\* a click has led into the morgue detour: its buttons are on screen and the
\* story is some clicks away from its ending
InsideDetour ==
    /\ last.op = "button"
    /\ HasSession(SESSIONS, HostChat)
    /\ SESSIONS[HostChat].act # THE_END
    /\ "morg_call" \in offered[HostChat]
    /\ ~CanEnd(SESSIONS, store, offered[HostChat], HostChat, 2)
    /\ CanEnd(SESSIONS, store, offered[HostChat], HostChat, MaxPath)

\* e in sess.evidence
InEvidence(sess, e) == \E i \in 1..Len(sess.evidence) : sess.evidence[i] = e

\* C27: after a Start command followed by clicks on buttons of the story in
\* any order, on screen or not, a session in Act 5 has flags['route'] equal
\* to break, burn or hunt, and a session whose evidence holds lila_alive has
\* the flag revived_lila set.
RouteAndRevivalRecorded ==
    \A c \in DOMAIN SESSIONS :
        /\ SESSIONS[c].act = ACT_5
              => /\ "route" \in DOMAIN SESSIONS[c].flags
                 /\ SESSIONS[c].flags["route"] \in {"break", "burn", "hunt"}
        /\ InEvidence(SESSIONS[c], "lila_alive")
              => FlagSet(SESSIONS[c].flags, "revived_lila")

\* a click on the revive button of an earlier message right after a route
\* was taken: the session is in Act 5 with lila_alive among its evidence
RevivedInActFive ==
    /\ last.op = "button"
    /\ last.data = "morg_revive"
    /\ HasSession(SESSIONS, HostChat)
    /\ SESSIONS[HostChat].act = ACT_5
    /\ InEvidence(SESSIONS[HostChat], "lila_alive")
    /\ SESSIONS[HostChat].flags["route"] = "hunt"

\* C28: a click on goto_morgue, goto_flood or arch_press, a State command or
\* a Talk command in a chat with a session leaves the session in the table
\* with act, flags, evidence and inventory as they were, whichever call the
\* transport or the store refuses meanwhile.
NavigationKeepsSession ==
    [][(/\ \/ last'.op \in {"state", "talk"}
           \/ last'.op = "button" /\ last'.data \in NavTokens
        /\ HasSession(SESSIONS, last'.chat))
          => LET c == last'.chat
             IN  /\ HasSession(SESSIONS', c)
                 /\ SESSIONS'[c].act = SESSIONS[c].act
                 /\ SESSIONS'[c].flags = SESSIONS[c].flags
                 /\ SESSIONS'[c].evidence = SESSIONS[c].evidence
                 /\ SESSIONS'[c].inventory = SESSIONS[c].inventory]_vars

\* the flood detour was opened from a session that already carries a flag
\* and a piece of evidence, and its prompt is on screen
FloodOpenedMidStory ==
    /\ last.op = "button"
    /\ last.data = "goto_flood"
    /\ ~last.raised
    /\ HasSession(SESSIONS, HostChat)
    /\ DOMAIN SESSIONS[HostChat].flags # {}
    /\ SESSIONS[HostChat].evidence # <<>>
    /\ "flood_leak" \in offered[HostChat]

====
